---- MODULE Spec2Model ----
(***************************************************************************)
(* StatPulse weekly health report generator                                *)
(* (scripts/generate-weekly-report.js).                                    *)
(*                                                                         *)
(* Number model.  Percentages are integers counted in hundredths of a      *)
(* percent (99.5% is 9950), latencies are integer milliseconds, instants   *)
(* are integer ticks with DAY_TICKS ticks per day.  The JavaScript values  *)
(* null, undefined and NaN are the negative integers Null, Undefined and   *)
(* NaN; every number the program handles is >= 0.                          *)
(*                                                                         *)
(* toFixed rounds the binary double, not the decimal: when the decimal     *)
(* value lies exactly half way between two results, the double may lie on  *)
(* either side.  The direction is the input `tie` (0 down, 1 up) of the    *)
(* rounding operators, chosen by the environment once per run.             *)
(***************************************************************************)
EXTENDS Integers, Sequences, FiniteSets, TLC

VARIABLES
    env,            \* process.env: is GITHUB_TOKEN set, is GITHUB_REPOSITORY set
    logFile,        \* content of data/health-log.json on disk
    pc,             \* position of main()
    log,            \* main: const log
    response,       \* outcome of the fetch main awaits ("none" until it settles)
    now,            \* instant at which the run executes (Date.now())
    tie,            \* direction of toFixed at an exact decimal tie in this run
    recentRecords,  \* main: const recentRecords
    stats,          \* main: const stats
    title,          \* main: const title
    body,           \* main: const body
    requests,       \* number of POST /repos/{repo}/issues requests sent
    exitCode,       \* process exit status (None while running)
    console,        \* messages written by logInfo / logWarn / logError
    kpiInput,       \* arguments of the kpiEmoji call under test
    kpiOutput       \* its result

vars == <<env, log, response, logFile, pc, now, tie, recentRecords, stats, title, body,
          requests, exitCode, console, kpiInput, kpiOutput>>

-----------------------------------------------------------------------------
(* JavaScript values *)

Null == -1
Undefined == -2
NaN == -3
None == -4          \* "no value yet" for variables main has not assigned
Dash == -5          \* the rendered cell '—'

IsNumber(v) == v >= 0

\* a + b of Array.prototype.reduce((a, b) => a + b, 0)
Plus(a, b) ==
    IF a \in {Undefined, NaN} \/ b \in {Undefined, NaN} THEN NaN
    ELSE (IF a = Null THEN 0 ELSE a) + (IF b = Null THEN 0 ELSE b)

\* s.reduce((a, b) => a + b, 0) over s[lo..hi].  Plus is associative, so the
\* sum is taken by halves, which keeps the recursion shallow on long windows.
RECURSIVE SumRange(_, _, _)
SumRange(s, lo, hi) ==
    IF lo > hi THEN 0
    ELSE IF lo = hi THEN Plus(0, s[lo])
    ELSE LET mid == (lo + hi) \div 2
         IN  Plus(SumRange(s, lo, mid), SumRange(s, mid + 1, hi))

Sum(s) == SumRange(s, 1, Len(s))

\* a >= b, a <= b, a < b on JavaScript numbers: false when an operand is NaN
\* or undefined
Gte(a, b) == IsNumber(a) /\ IsNumber(b) /\ a >= b
Lte(a, b) == IsNumber(a) /\ IsNumber(b) /\ a <= b
Lt(a, b) == IsNumber(a) /\ IsNumber(b) /\ a < b

\* num / den rounded to an integer, halves going the way of t
RoundTie(num, den, t) ==
    LET q == num \div den
        r == num % den
    IN  IF 2 * r > den THEN q + 1
        ELSE IF 2 * r = den THEN q + t
        ELSE q

\* Math.round(num / den): halves go up
MathRound(num, den) ==
    IF ~IsNumber(num) THEN NaN ELSE RoundTie(num, den, 1)

-----------------------------------------------------------------------------
(* Named constants *)

REPORT_WINDOW_DAYS == 7
UPTIME_KPI_TARGET_PCT == 9950
RESPONSE_KPI_TARGET_MS == 3000
UPTIME_CRITICAL_THRESHOLD_PCT == 9500
CONTENT_TYPE_TARGET_PCT == 10000
ENDPOINT_NAMES == <<"Structures", "Data Query", "Codelists">>
DAY_TICKS == 2

Endpoints == {ENDPOINT_NAMES[i] : i \in 1..Len(ENDPOINT_NAMES)}

-----------------------------------------------------------------------------
(* Data helpers *)

\* readLog(): the parsed array, or [] when the file is absent, is not JSON
\* or is JSON that is not an array
readLog(file) ==
    IF file.kind = "array" THEN file.records ELSE <<>>

\* readLogWarning warning only of an absent file
readLogWarningAbsentOnly(file) ==
    IF file.kind = "absent" THEN "WARN not found" ELSE ""

\* the warning readLog() writes, "" when it writes none
readLogWarning(file) ==
    CASE file.kind = "array" -> ""
      [] file.kind = "notArray" -> "WARN not an array"
      [] file.kind = "absent" -> "WARN not found"
      [] OTHER -> "WARN could not parse"

\* Elements of a parsed JSON array that are not objects: null, and a number
JsonNull == [json |-> "null"]
JsonNumber == [json |-> "number"]

\* r.timestamp: undefined when r has no such property (a number has none)
timestampOf(r) == IF "timestamp" \in DOMAIN r THEN r.timestamp ELSE Undefined

\* r.timestamp throws TypeError when r is null
filterRecentRecordsThrows(records) ==
    \E i \in 1..Len(records) : records[i] = JsonNull

\* filterRecentRecords stamping the records it keeps with the instant of the
\* run
filterRecentRecordsRestamped(records, days, t) ==
    LET cutoff == t - days * DAY_TICKS
        kept == SelectSeq(records, LAMBDA r : Gte(timestampOf(r), cutoff))
    IN  [i \in 1..Len(kept) |-> [kept[i] EXCEPT !.timestamp = t]]

\* filterRecentRecords(log, days) executed at instant t.  new Date(undefined)
\* and new Date of an unparseable string are Invalid Date, whose comparison
\* with cutoff is false.
filterRecentRecords(records, days, t) ==
    LET cutoff == t - days * DAY_TICKS
    IN  SelectSeq(records, LAMBDA r : Gte(timestampOf(r), cutoff))

\* endpointRecordsOf without the filter on the endpoint name
endpointRecordsUnfiltered(records, endpointName) == records

\* records.filter((r) => r.endpoint === endpointName)
endpointRecordsOf(records, endpointName) ==
    SelectSeq(records, LAMBDA r : r.endpoint = endpointName)

\* validTimesOf without the filter: a null latency counts as 0 in the sum
validTimesNullAsZero(endpointRecords) ==
    [i \in 1..Len(endpointRecords) |->
        IF endpointRecords[i].responseTimeMs = Null THEN 0
        ELSE endpointRecords[i].responseTimeMs]

\* endpointRecords.filter((r) => r.responseTimeMs !== null)
\*                .map((r) => r.responseTimeMs)
validTimesOf(endpointRecords) ==
    LET kept == SelectSeq(endpointRecords, LAMBDA r : r.responseTimeMs # Null)
    IN  [i \in 1..Len(kept) |-> kept[i].responseTimeMs]

\* Math.min(...s) and Math.max(...s) of a non-empty s: NaN when an argument
\* is undefined or NaN
MathMin(s) ==
    IF \E i \in 1..Len(s) : ~IsNumber(s[i]) THEN NaN
    ELSE CHOOSE m \in {s[i] : i \in 1..Len(s)} : \A i \in 1..Len(s) : m <= s[i]

MathMax(s) ==
    IF \E i \in 1..Len(s) : ~IsNumber(s[i]) THEN NaN
    ELSE CHOOSE m \in {s[i] : i \in 1..Len(s)} : \A i \in 1..Len(s) : m >= s[i]

\* the value computeEndpointStats returns for an endpoint without records
NullStats == [isNull |-> TRUE]

\* computeEndpointStats(records, endpointName), toFixed ties going the way of t
computeEndpointStats(records, endpointName, t) ==
    LET endpointRecords == endpointRecordsOf(records, endpointName)
        n == Len(endpointRecords)
        okCount == Len(SelectSeq(endpointRecords, LAMBDA r : r.ok))
        validTimes == validTimesOf(endpointRecords)
        latestRecord == endpointRecords[n]
    IN  IF n = 0 THEN NullStats
        ELSE [ uptimePercent |-> RoundTie(okCount * 10000, n, t),
               avgResponseMs |->
                   IF Len(validTimes) > 0
                   THEN MathRound(Sum(validTimes), Len(validTimes)) ELSE Null,
               minResponseMs |->
                   IF Len(validTimes) > 0 THEN MathMin(validTimes) ELSE Null,
               maxResponseMs |->
                   IF Len(validTimes) > 0 THEN MathMax(validTimes) ELSE Null,
               anomalyCount |->
                   Len(SelectSeq(endpointRecords, LAMBDA r : r.anomalyDetected)),
               \* latestRecord?.extraMetric?.value ?? null
               latestExtraMetric |->
                   IF latestRecord.extraMetric = Undefined THEN Null
                   ELSE latestRecord.extraMetric ]

\* Digit groups of num.toLocaleString('en-US'): 2591 is <<2, 591>> ("2,591")
RECURSIVE toLocaleString(_)
toLocaleString(num) ==
    IF num < 1000 THEN <<num>>
    ELSE Append(toLocaleString(num \div 1000), num % 1000)

\* formatNumber(n)
formatNumber(n) ==
    IF n = Null \/ n = Undefined THEN <<Dash>>
    ELSE IF n = NaN THEN <<NaN>>
    ELSE toLocaleString(n)

\* kpiEmoji with value > target in place of value >= target
kpiEmojiStrictTarget(value, target, direction) ==
    IF value = Null THEN "dash"
    ELSE IF direction = "higher"
         THEN IF Gte(value, target) /\ value # target THEN "onTarget"
              ELSE IF Gte(value, UPTIME_CRITICAL_THRESHOLD_PCT) THEN "warning"
              ELSE "critical"
         ELSE IF Lte(value, target) THEN "onTarget"
              ELSE IF Lte(2 * value, 3 * target) THEN "warning"
              ELSE "critical"

\* kpiEmoji with value < target * 1.5 in place of value <= target * 1.5
kpiEmojiStrictCritical(value, target, direction) ==
    IF value = Null THEN "dash"
    ELSE IF direction = "higher"
         THEN IF Gte(value, target) THEN "onTarget"
              ELSE IF Gte(value, UPTIME_CRITICAL_THRESHOLD_PCT) THEN "warning"
              ELSE "critical"
         ELSE IF Lte(value, target) THEN "onTarget"
              ELSE IF Lt(2 * value, 3 * target) THEN "warning"
              ELSE "critical"

\* kpiEmoji(value, target, direction)
kpiEmoji(value, target, direction) ==
    IF value = Null THEN "dash"
    ELSE IF direction = "higher"
         THEN IF Gte(value, target) THEN "onTarget"
              ELSE IF Gte(value, UPTIME_CRITICAL_THRESHOLD_PCT) THEN "warning"
              ELSE "critical"
         ELSE IF Lte(value, target) THEN "onTarget"
              ELSE IF Lte(2 * value, 3 * target) THEN "warning"
              ELSE "critical"

-----------------------------------------------------------------------------
(* Report builder: the locals of buildIssueBody(stats, recentRecords,      *)
(* reportStart, reportEnd), then the body it returns.  st is the stats map, *)
(* recs the window, t the direction of toFixed ties.                        *)

\* stats[n]?.field : undefined when stats[n] is null
Opt(s, field) == IF s = NullStats THEN Undefined ELSE s[field]

\* stats[n] || {} followed by .field
OrEmpty(s, field) == IF s = NullStats THEN Undefined ELSE s[field]

\* ENDPOINT_NAMES.map((n) => stats[n]?.field).filter((v) => v !== null)
validValuesOf(st, field) ==
    LET mapped == [i \in 1..Len(ENDPOINT_NAMES) |-> Opt(st[ENDPOINT_NAMES[i]], field)]
    IN  SelectSeq(mapped, LAMBDA v : v # Null)

validUptimesOf(st) == validValuesOf(st, "uptimePercent")
validAvgMsOf(st) == validValuesOf(st, "avgResponseMs")

\* parseFloat((sum / n).toFixed(2)) on hundredths
overallUptimePctOf(st, t) ==
    LET v == validUptimesOf(st)
    IN  IF Len(v) = 0 THEN Null
        ELSE IF ~IsNumber(Sum(v)) THEN NaN
        ELSE RoundTie(Sum(v), Len(v), t)

overallAvgMsOf(st) ==
    LET v == validAvgMsOf(st)
    IN  IF Len(v) = 0 THEN Null ELSE MathRound(Sum(v), Len(v))

\* okRecordsOf without the filter on ok
okRecordsUnfiltered(recs) == recs

okRecordsOf(recs) == SelectSeq(recs, LAMBDA r : r.ok)
validCtRecordsOf(recs) == SelectSeq(okRecordsOf(recs), LAMBDA r : r.contentTypeValid)

\* parseFloat(((valid / ok) * 100).toFixed(1)): tenths of a percent, kept in
\* hundredths
contentTypeValidityPctOf(recs, t) ==
    LET okN == Len(okRecordsOf(recs))
    IN  IF okN = 0 THEN Null
        ELSE 10 * RoundTie(Len(validCtRecordsOf(recs)) * 1000, okN, t)

\* ENDPOINT_NAMES.some((n) => stats[n]?.uptimePercent !== null &&
\*                            stats[n].uptimePercent < UPTIME_CRITICAL_THRESHOLD_PCT)
\* scanned from index i: "true", "false", or "TypeError" when stats[n] is null
\* (undefined !== null holds, then stats[n].uptimePercent reads a property of
\* null)
RECURSIVE anyUptimeCriticalFrom(_, _)
anyUptimeCriticalFrom(st, i) ==
    IF i > Len(ENDPOINT_NAMES) THEN "false"
    ELSE LET s == st[ENDPOINT_NAMES[i]]
         IN  IF Opt(s, "uptimePercent") = Null
             THEN anyUptimeCriticalFrom(st, i + 1)
             ELSE IF s = NullStats THEN "TypeError"
             ELSE IF Lt(s.uptimePercent, UPTIME_CRITICAL_THRESHOLD_PCT) THEN "true"
             ELSE anyUptimeCriticalFrom(st, i + 1)

\* anyUptimeCriticalOf looking at the first configured endpoint only
anyUptimeCriticalFirstOnly(st) ==
    LET s == st[ENDPOINT_NAMES[1]]
    IN  IF s = NullStats THEN "TypeError"
        ELSE IF Lt(s.uptimePercent, UPTIME_CRITICAL_THRESHOLD_PCT) THEN "true"
        ELSE "false"

anyUptimeCriticalOf(st) == anyUptimeCriticalFrom(st, 1)

\* validUptimes.every((v) => v >= UPTIME_KPI_TARGET_PCT)
allUptimeOnTargetOf(st) ==
    LET v == validUptimesOf(st)
    IN  \A i \in 1..Len(v) : Gte(v[i], UPTIME_KPI_TARGET_PCT)

\* ENDPOINT_NAMES.some((n) => (stats[n]?.anomalyCount ?? 0) > 0)
anyAnomaliesOf(st) ==
    \E i \in 1..Len(ENDPOINT_NAMES) :
        LET c == Opt(st[ENDPOINT_NAMES[i]], "anomalyCount")
        IN  (IF c = Undefined THEN 0 ELSE c) > 0

\* let assessment (defined when anyUptimeCritical did not throw)
assessmentOf(st) ==
    IF anyUptimeCriticalOf(st) = "true" THEN "Critical"
    ELSE IF ~allUptimeOnTargetOf(st) \/ anyAnomaliesOf(st) THEN "Warning"
    ELSE "OnTarget"

\* v.toFixed(1) + '%' of a percentage in hundredths: tenths
toFixed1(v, t) == IF ~IsNumber(v) THEN NaN ELSE RoundTie(v, 10, t)

\* `${v !== null && v !== undefined ? v.toFixed(1) + '%' : '—'}`
pctCell(v, t) == IF v = Null \/ v = Undefined THEN Dash ELSE toFixed1(v, t)

\* `${v !== null && v !== undefined ? v + 'ms' : '—'}`
msCell(v) == IF v = Null \/ v = Undefined THEN Dash ELSE v

\* one line of the Endpoint Summary table
endpointRow(st, name, t) ==
    LET s == st[name]
        count == OrEmpty(s, "anomalyCount")
    IN  [ endpoint |-> name,
          uptime |-> pctCell(OrEmpty(s, "uptimePercent"), t),
          avg |-> msCell(OrEmpty(s, "avgResponseMs")),
          min |-> msCell(OrEmpty(s, "minResponseMs")),
          max |-> msCell(OrEmpty(s, "maxResponseMs")),
          anomalies |-> IF count = Undefined THEN 0 ELSE count ]

\* one line of the KPI Status table
kpiRow(value, cell, target, direction) ==
    [ thisWeek |-> cell, status |-> kpiEmoji(value, target, direction) ]

\* whether buildIssueBody throws (TypeError at the availability scan)
buildIssueBodyThrows(st) == anyUptimeCriticalOf(st) = "TypeError"

\* the lines buildIssueBody returns, executed at instant at
buildIssueBody(st, recs, reportStart, reportEnd, at, t) ==
    LET overallUptimePct == overallUptimePctOf(st, t)
        overallAvgMs == overallAvgMsOf(st)
        contentTypeValidityPct == contentTypeValidityPctOf(recs, t)
    IN  [ period |-> <<reportStart, reportEnd>>,
          generated |-> at,
          totalChecks |-> Len(recs),
          runsCount |-> MathRound(Len(recs), Len(ENDPOINT_NAMES)),
          summary |-> [i \in 1..Len(ENDPOINT_NAMES) |->
                          endpointRow(st, ENDPOINT_NAMES[i], t)],
          catalogue |->
              << formatNumber(OrEmpty(st["Structures"], "latestExtraMetric")),
                 formatNumber(OrEmpty(st["Codelists"], "latestExtraMetric")) >>,
          assessment |-> assessmentOf(st),
          kpis |->
              [ availability |->
                    kpiRow(overallUptimePct, pctCell(overallUptimePct, t),
                           UPTIME_KPI_TARGET_PCT, "higher"),
                responseTime |->
                    kpiRow(overallAvgMs, msCell(overallAvgMs),
                           RESPONSE_KPI_TARGET_MS, "lower"),
                contentType |->
                    kpiRow(contentTypeValidityPct, pctCell(contentTypeValidityPct, t),
                           CONTENT_TYPE_TARGET_PCT, "higher") ] ]

-----------------------------------------------------------------------------
(* Inputs *)

MaxLogLen == 3          \* records in the log of a run
MaxLiveLogLen == 1      \* records in the log of a run followed to its end
MaxWindowLen == 3       \* records in a window handed to the aggregator
MaxLatencyMs == 6000    \* largest latency handed to kpiEmoji

\* Instants at which a run may execute: two instants of the same day
Instants == {40, 41}

Record(e, ts, ok, rt, ct, an, xm) ==
    [ timestamp |-> ts, endpoint |-> e, ok |-> ok, responseTimeMs |-> rt,
      contentTypeValid |-> ct, anomalyDetected |-> an, extraMetric |-> xm ]

\* Measurement records of the last day, one endpoint e: the healthy record and
\* the records that differ from it in one respect, then the failed checks
Healthy(e, ts) == Record(e, ts, TRUE, 3000, TRUE, FALSE, 2591)
Slow(e, ts) == Record(e, ts, TRUE, 6000, TRUE, FALSE, 2591)
BadContentType(e, ts) == Record(e, ts, TRUE, 3000, FALSE, FALSE, Null)
Anomalous(e, ts) == Record(e, ts, TRUE, 3000, TRUE, TRUE, 2600)
TimedOut(e, ts) == Record(e, ts, FALSE, Null, FALSE, FALSE, Null)
FailedWithLatency(e, ts) == Record(e, ts, FALSE, 6000, FALSE, FALSE, Null)

\* Records of the windows handed to the aggregator
WindowRecords ==
    UNION { { Healthy(e, 39), Slow(e, 39), BadContentType(e, 39), Anomalous(e, 39),
              TimedOut(e, 39), FailedWithLatency(e, 39) }
            : e \in Endpoints }

\* okN healthy checks of endpoint e followed by failN timed-out checks
Batch(e, okN, failN) ==
    [i \in 1..(okN + failN) |-> IF i <= okN THEN Healthy(e, 39) ELSE TimedOut(e, 39)]

\* <<okN, failN>> of an endpoint over a window: no record, all checks good,
\* and one timeout among 19, 20, 21, 100 and 200 checks (uptimes 94.74, 95.00,
\* 95.24, 99.00 and 99.50)
BatchSizes ==
    { <<0, 0>>, <<1, 0>>, <<18, 1>>, <<19, 1>>, <<20, 1>>, <<99, 1>>, <<199, 1>> }

\* Windows around the uptime thresholds: one batch per endpoint
ThresholdWindows ==
    { Batch("Structures", a[1], a[2]) \o Batch("Data Query", b[1], b[2])
        \o Batch("Codelists", c[1], c[2]) :
        a \in BatchSizes, b \in BatchSizes, c \in BatchSizes } \ { <<>> }

\* Healthy checks of "Structures" beside one check of it answered with an
\* invalid content type: 1 invalid among 200, 2000 and 2001 ok records of the
\* window (99.5%, 99.95% and 99.95002...%)
ContentTypeBatchSizes == {197, 1997, 1998}

\* Windows around the content-type target: every endpoint has data
ContentTypeWindows ==
    { [i \in 1..n |-> Healthy("Structures", 39)]
        \o << BadContentType("Structures", 39), Healthy("Data Query", 39),
              Healthy("Codelists", 39) >> :
        n \in ContentTypeBatchSizes }

\* Every sequence of up to MaxWindowLen window records
ShortWindows == UNION { [1..n -> WindowRecords] : n \in 1..MaxWindowLen }

\* Records of the log files of a run: 26 is the oldest instant inside the
\* window of a run at 40 and outside the window of a run at 41
LogRecords ==
    UNION { { Healthy(e, 39), TimedOut(e, 39), Healthy(e, 26) } : e \in Endpoints }

\* A record stamped 41, later than a run at 40; elements that are not objects;
\* a record without timestamp and one whose timestamp cannot be parsed
LogOddities ==
    { Healthy("Structures", 41), JsonNull, JsonNumber,
      Healthy("Structures", Undefined), Healthy("Structures", NaN) }

LogElements == LogRecords \cup LogOddities

LogFiles ==
    { [kind |-> "array", records |-> s] :
        s \in UNION { [1..n -> LogElements] : n \in 0..MaxLogLen } }
    \cup { [kind |-> k, records |-> <<>>] :
             k \in {"absent", "unreadable", "invalid", "notArray"} }

\* kpiEmoji calls: the three call sites of buildIssueBody over their value
\* ranges, with the values null and NaN
KpiInputs ==
    { [value |-> v, target |-> UPTIME_KPI_TARGET_PCT, direction |-> "higher"] :
        v \in (0..CONTENT_TYPE_TARGET_PCT) \cup {Null, NaN} }
    \cup { [value |-> v, target |-> CONTENT_TYPE_TARGET_PCT, direction |-> "higher"] :
        v \in (0..CONTENT_TYPE_TARGET_PCT) \cup {Null, NaN} }
    \cup { [value |-> v, target |-> RESPONSE_KPI_TARGET_MS, direction |-> "lower"] :
        v \in (0..MaxLatencyMs) \cup {Null, NaN} }

\* Log files of the runs followed to their end
LiveLogFiles == {f \in LogFiles : Len(f.records) <= MaxLiveLogLen}

-----------------------------------------------------------------------------
(* Entry point: main() *)

logInfo(msg) == console' = Append(console, <<"INFO", msg>>)
logWarn(msg) == console' = Append(console, <<"WARN", msg>>)
logError(msg) == console' = Append(console, <<"ERROR", msg>>)

\* process.exit(code)
exit(code) == pc' = "exited" /\ exitCode' = code

\* the ISO date (day number) of instant t: toISOString().split('T')[0]
isoDate(t) == t \div DAY_TICKS

\* Monday of the week of instant t (day 0 is a Thursday)
mondayOf(t) ==
    LET day == isoDate(t)
        getDay == (day + 4) % 7
    IN  day - ((getDay + 6) % 7)

reportStartOf(t) == isoDate(t - REPORT_WINDOW_DAYS * DAY_TICKS)
reportEndOf(t) == isoDate(t)

\* stats[name] = computeEndpointStats(recentRecords, name) for each name
statsOf(recs, t) ==
    [name \in Endpoints |-> computeEndpointStats(recs, name, t)]

\* what steps 3 and 4 compute from a window at instant at with tie direction t
aggregate(recs, at, t) ==
    LET st == statsOf(recs, t)
    IN  IF buildIssueBodyThrows(st) THEN <<st, "TypeError">>
        ELSE <<st, buildIssueBody(st, recs, reportStartOf(at), reportEndOf(at), at, t)>>

\* the tie directions that change a result of this run
tieDirections(recs, at) ==
    IF aggregate(recs, at, 0) = aggregate(recs, at, 1) THEN {0} ELSE {0, 1}

\* CheckEnv without the check of GITHUB_REPOSITORY
CheckEnvTokenOnly ==
    /\ pc = "start"
    /\ IF ~env.token
       THEN logError("GITHUB_TOKEN not set") /\ exit(1)
       ELSE logInfo("Generating weekly report") /\ pc' = "readLog"
              /\ UNCHANGED exitCode
    /\ UNCHANGED <<env, log, response, logFile, now, tie, recentRecords, stats, title, body,
                   requests, kpiInput, kpiOutput>>

\* 1. Validates required environment variables.
CheckEnv ==
    /\ pc = "start"
    /\ IF ~env.token
       THEN logError("GITHUB_TOKEN not set") /\ exit(1)
       ELSE IF ~env.repo
       THEN logError("GITHUB_REPOSITORY not set") /\ exit(1)
       ELSE logInfo("Generating weekly report") /\ pc' = "readLog"
              /\ UNCHANGED exitCode
    /\ UNCHANGED <<env, log, response, logFile, now, tie, recentRecords, stats, title, body,
                   requests, kpiInput, kpiOutput>>

\* 2. Reads and filters the health log; a TypeError thrown by
\* filterRecentRecords reaches main().catch, which logs it and exits with
\* code 1.
ReadAndFilter ==
    /\ pc = "readLog"
    /\ \E at \in Instants :
         LET parsed == readLog(logFile)
             warning == readLogWarning(logFile)
             recent == filterRecentRecords(parsed, REPORT_WINDOW_DAYS, at)
             read == IF warning = "" THEN console
                     ELSE Append(console, <<"WARN", warning>>)
         IN  /\ now' = at
             /\ log' = parsed
             /\ IF filterRecentRecordsThrows(parsed)
                THEN /\ console' = Append(read, <<"ERROR", "Unhandled error">>)
                     /\ exit(1)
                     /\ UNCHANGED recentRecords
                ELSE IF Len(recent) = 0
                THEN /\ recentRecords' = recent
                     /\ console' = Append(read, <<"WARN", "No records found">>)
                     /\ exit(0)
                ELSE /\ recentRecords' = recent
                     /\ console' = Append(read, <<"INFO", "Found records">>)
                     /\ pc' = "computeStats"
                     /\ UNCHANGED exitCode
    /\ UNCHANGED <<env, response, logFile, tie, stats, title, body, requests,
                   kpiInput, kpiOutput>>

\* 3. Computes per-endpoint statistics.
ComputeStats ==
    /\ pc = "computeStats"
    /\ \E t \in tieDirections(recentRecords, now) :
         /\ tie' = t
         /\ stats' = statsOf(recentRecords, t)
    /\ pc' = "buildBody"
    /\ UNCHANGED <<env, log, response, logFile, now, recentRecords, title, body, requests, exitCode,
                   console, kpiInput, kpiOutput>>

\* 4. Builds the Markdown report body; an exception thrown by buildIssueBody
\* reaches main().catch, which logs it and exits with code 1.
BuildBody ==
    /\ pc = "buildBody"
    /\ title' = mondayOf(now)
    /\ IF buildIssueBodyThrows(stats)
       THEN /\ logError("Unhandled error")
            /\ exit(1)
            /\ UNCHANGED body
       ELSE /\ body' = buildIssueBody(stats, recentRecords, reportStartOf(now),
                                      reportEndOf(now), now, tie)
            /\ logInfo("Creating issue")
            /\ pc' = "createIssue"
            /\ UNCHANGED exitCode
    /\ UNCHANGED <<env, log, response, logFile, now, tie, recentRecords, stats, requests,
                   kpiInput, kpiOutput>>

\* 5. Creates a GitHub Issue via the REST API: the request is sent and main
\* awaits the response.
CreateIssue ==
    /\ pc = "createIssue"
    /\ requests' = requests + 1
    /\ pc' = "awaitFetch"
    /\ UNCHANGED <<env, log, response, logFile, now, tie, recentRecords, stats, title, body, exitCode,
                   console, kpiInput, kpiOutput>>

\* The request ends: GitHub answers with a success status and a JSON body,
\* with a success status and a body that cannot be read as JSON, with another
\* status, or the request fails without a response.
Responses == {"ok", "okBodyUnreadable", "notOk", "failed"}

FetchSettles ==
    /\ pc = "awaitFetch"
    /\ response = "none"
    /\ response' \in Responses
    /\ UNCHANGED <<env, log, logFile, pc, now, tie, recentRecords, stats, title,
                   body, requests, exitCode, console, kpiInput, kpiOutput>>

\* response.ok, and response.json() resolves: main returns and the process
\* ends with code 0
FetchCreated ==
    /\ pc = "awaitFetch"
    /\ response = "ok"
    /\ logInfo("Issue created successfully")
    /\ pc' = "done"
    /\ exitCode' = 0
    /\ UNCHANGED <<env, log, response, logFile, now, tie, recentRecords, stats,
                   title, body, requests, kpiInput, kpiOutput>>

\* FetchRejected without the check of response.ok: the run goes on as after a
\* success
FetchRejectedIgnored ==
    /\ pc = "awaitFetch"
    /\ response = "notOk"
    /\ logInfo("Issue created successfully")
    /\ pc' = "done"
    /\ exitCode' = 0
    /\ UNCHANGED <<env, log, response, logFile, now, tie, recentRecords, stats,
                   title, body, requests, kpiInput, kpiOutput>>

\* FetchRejected waiting for another response instead of exiting
FetchRejectedWaits ==
    /\ pc = "awaitFetch"
    /\ response = "notOk"
    /\ response' = "none"
    /\ UNCHANGED <<env, log, logFile, pc, now, tie, recentRecords, stats, title,
                   body, requests, exitCode, console, kpiInput, kpiOutput>>

\* FetchRejected sending the request again
FetchRejectedRetries ==
    /\ pc = "awaitFetch"
    /\ response = "notOk"
    /\ logError("Failed to create issue")
    /\ pc' = "createIssue"
    /\ response' = "none"
    /\ UNCHANGED <<env, log, logFile, now, tie, recentRecords, stats, title, body,
                   requests, exitCode, kpiInput, kpiOutput>>

\* !response.ok
FetchRejected ==
    /\ pc = "awaitFetch"
    /\ response = "notOk"
    /\ logError("Failed to create issue")
    /\ exit(1)
    /\ UNCHANGED <<env, log, response, logFile, now, tie, recentRecords, stats,
                   title, body, requests, kpiInput, kpiOutput>>

\* fetch rejects, or response.json() rejects: main().catch
FetchThrows ==
    /\ pc = "awaitFetch"
    /\ response \in {"failed", "okBodyUnreadable"}
    /\ logError("Unhandled error")
    /\ exit(1)
    /\ UNCHANGED <<env, log, response, logFile, now, tie, recentRecords, stats,
                   title, body, requests, kpiInput, kpiOutput>>

\* a call kpiEmoji(value, target, direction)
CallKpiEmoji ==
    /\ pc = "kpiEmoji"
    /\ kpiOutput' = kpiEmoji(kpiInput.value, kpiInput.target, kpiInput.direction)
    /\ pc' = "returned"
    /\ UNCHANGED <<env, log, response, logFile, now, tie, recentRecords, stats, title, body, requests,
                   exitCode, console, kpiInput>>

-----------------------------------------------------------------------------
(* Specifications *)

NoKpiCall == [value |-> None, target |-> None, direction |-> "none"]

\* process.env of a GitHub Actions run: both variables set
Configured == [token |-> TRUE, repo |-> TRUE]

\* the value of body before buildIssueBody has returned
NoBody == [isNull |-> TRUE]

\* the state of a process that has not started main()
Fresh ==
    /\ log = <<>>
    /\ response = "none"
    /\ now = None
    /\ tie = 0
    /\ recentRecords = <<>>
    /\ stats = [name \in Endpoints |-> NullStats]
    /\ title = None
    /\ body = NoBody
    /\ requests = 0
    /\ exitCode = None
    /\ console = <<>>
    /\ kpiOutput = None

\* A run of the report generator on a log file
Init ==
    /\ env \in [token : BOOLEAN, repo : BOOLEAN]
    /\ logFile \in LogFiles
    /\ pc = "start"
    /\ kpiInput = NoKpiCall
    /\ Fresh

Next ==
    \/ CheckEnv
    \/ ReadAndFilter
    \/ ComputeStats
    \/ BuildBody
    \/ CreateIssue
    \/ FetchSettles
    \/ FetchCreated
    \/ FetchRejected
    \/ FetchThrows

Spec == Init /\ [][Next]_vars

\* A run on a short log whose steps are taken: main runs each step as soon as
\* it can, and the request it awaits eventually settles
InitLive ==
    /\ env \in [token : BOOLEAN, repo : BOOLEAN]
    /\ logFile \in LiveLogFiles
    /\ pc = "start"
    /\ kpiInput = NoKpiCall
    /\ Fresh

SpecLive == InitLive /\ [][Next]_vars /\ WF_vars(Next)

\* The aggregator (steps 3 and 4 of main) on a window
InitAggregator ==
    /\ env = Configured
    /\ log = <<>>
    /\ response = "none"
    /\ logFile = [kind |-> "absent", records |-> <<>>]
    /\ pc = "computeStats"
    /\ kpiInput = NoKpiCall
    /\ \/ recentRecords \in ShortWindows
       \/ recentRecords \in ThresholdWindows
       \/ recentRecords \in ContentTypeWindows
    /\ now = 40
    /\ tie = 0
    /\ stats = [name \in Endpoints |-> NullStats]
    /\ title = None
    /\ body = NoBody
    /\ requests = 0
    /\ exitCode = None
    /\ console = <<>>
    /\ kpiOutput = None

NextAggregator ==
    \/ ComputeStats
    \/ BuildBody

SpecAggregator == InitAggregator /\ [][NextAggregator]_vars

\* kpiEmoji on the values of its three call sites
InitKpi ==
    /\ env = Configured
    /\ logFile = [kind |-> "absent", records |-> <<>>]
    /\ pc = "kpiEmoji"
    /\ kpiInput \in KpiInputs
    /\ Fresh

NextKpi == CallKpiEmoji

SpecKpi == InitKpi /\ [][NextKpi]_vars

-----------------------------------------------------------------------------
(* Properties *)

Abs(x) == IF x < 0 THEN -x ELSE x

\* stats holds the result of step 3 for a window with records
StatsComputed ==
    /\ pc \in {"buildBody", "createIssue", "awaitFetch", "done", "exited"}
    /\ Len(recentRecords) > 0

\* buildIssueBody has returned
BodyBuilt == body # NoBody

\* the window records of endpoint e, and those among them with ok true
RecordsOf(e) == {i \in 1..Len(recentRecords) : recentRecords[i].endpoint = e}
OkRecordsOf(e) == {i \in RecordsOf(e) : recentRecords[i].ok}

\* v is num / den rounded to the nearest integer
IsRounded(v, num, den) == 2 * Abs(v * den - num) <= den

\* C1: an endpoint with records in the window has uptimePercent = ok records /
\* records x 100 rounded to 2 decimals, a number in [0,100]; an endpoint
\* without records has no stats (null), and nothing is divided by zero.
C1_UptimePercent ==
    StatsComputed =>
        \A e \in Endpoints :
            LET n == Cardinality(RecordsOf(e))
                k == Cardinality(OkRecordsOf(e))
            IN  IF n = 0 THEN stats[e] = NullStats
                ELSE /\ stats[e] # NullStats
                     /\ stats[e].uptimePercent \in 0..10000
                     /\ IsRounded(stats[e].uptimePercent, 10000 * k, n)

\* 20 of 21 checks good on one endpoint (95.24%), no record of another
C1_Witness ==
    /\ StatsComputed
    /\ \E e \in Endpoints : stats[e] # NullStats /\ stats[e].uptimePercent = 9524
    /\ \E e \in Endpoints : stats[e] = NullStats

\* C2: avgResponseMs, minResponseMs and maxResponseMs of an endpoint are taken
\* over exactly its records with ok true and a present responseTimeMs.
C2_LatencyOverOkRecords ==
    StatsComputed =>
        \A e \in Endpoints :
            stats[e] # NullStats =>
                LET counted == SelectSeq(recentRecords,
                                   LAMBDA r : /\ r.endpoint = e
                                              /\ r.ok
                                              /\ IsNumber(r.responseTimeMs))
                    times == [i \in 1..Len(counted) |-> counted[i].responseTimeMs]
                IN  IF Len(counted) = 0
                    THEN /\ stats[e].avgResponseMs = Null
                         /\ stats[e].minResponseMs = Null
                         /\ stats[e].maxResponseMs = Null
                    ELSE /\ IsNumber(stats[e].avgResponseMs)
                         /\ IsRounded(stats[e].avgResponseMs, Sum(times), Len(times))
                         /\ \A i \in 1..Len(times) :
                                /\ stats[e].minResponseMs <= times[i]
                                /\ stats[e].maxResponseMs >= times[i]
                         /\ \E i \in 1..Len(times) : stats[e].minResponseMs = times[i]
                         /\ \E i \in 1..Len(times) : stats[e].maxResponseMs = times[i]

\* the per-endpoint values of field of the endpoints that have stats and a
\* non-null value, in the order of ENDPOINT_NAMES
ValuesWithData(field) ==
    LET named == SelectSeq(ENDPOINT_NAMES,
                     LAMBDA n : stats[n] # NullStats /\ stats[n][field] # Null)
    IN  [i \in 1..Len(named) |-> stats[named[i]][field]]

\* v is the mean of the values s at the precision the report keeps, null
\* when s is empty
IsMeanOf(v, s) ==
    IF Len(s) = 0 THEN v = Null
    ELSE IF ~IsNumber(Sum(s)) THEN v = NaN
    ELSE IsNumber(v) /\ IsRounded(v, Sum(s), Len(s))

\* C3: overall uptime and overall average latency of the KPI table are the
\* means of the per-endpoint values of the endpoints that have one; an
\* endpoint without records counts neither as 0 nor as NaN.
C3_OverallIsMeanOfEndpointsWithData ==
    BodyBuilt =>
        /\ IsMeanOf(overallUptimePctOf(stats, tie), ValuesWithData("uptimePercent"))
        /\ IsMeanOf(overallAvgMsOf(stats), ValuesWithData("avgResponseMs"))

\* C4: a configured run that found records in the window is never ended
\* with an error before the publish step.
C4_DataNeverAbortsRun ==
    ~(pc = "exited" /\ exitCode = 1 /\ Len(recentRecords) > 0 /\ requests = 0)

\* step 4 has ended: buildIssueBody has returned or thrown
BuildBodyEnded == StatsComputed /\ pc # "buildBody"

\* some endpoint has an uptime strictly below 95%
SomeEndpointBelowFloor ==
    \E e \in Endpoints : stats[e] # NullStats /\ stats[e].uptimePercent < 9500

\* C5: whenever some endpoint has an uptime strictly below 95% the report
\* shows Critical, whatever the anomalies and the other KPIs; a report shows
\* Critical only then, and every report carries one of the three assessments.
C5_CriticalIffEndpointBelowFloor ==
    BuildBodyEnded =>
        /\ SomeEndpointBelowFloor => (BodyBuilt /\ body.assessment = "Critical")
        /\ BodyBuilt =>
               /\ body.assessment \in {"Critical", "Warning", "OnTarget"}
               /\ body.assessment = "Critical" => SomeEndpointBelowFloor

\* On the reports that buildIssueBody returns, the assessment is one of the
\* three and is Critical exactly when some endpoint is below the floor.
BuiltReportCriticalIffBelowFloor ==
    BodyBuilt =>
        /\ body.assessment \in {"Critical", "Warning", "OnTarget"}
        /\ body.assessment = "Critical" <=> SomeEndpointBelowFloor

\* a KPI row that missed its target
Missed(row) == row.status \in {"warning", "critical"}

\* C6: a report that is not Critical is Warning exactly when one of its three
\* KPIs missed its target or a record of the window carries a detected
\* anomaly, and on-target otherwise.
C6_WarningIffKpiMissedOrAnomaly ==
    (BodyBuilt /\ body.assessment # "Critical") =>
        LET attention ==
                \/ Missed(body.kpis.availability)
                \/ Missed(body.kpis.responseTime)
                \/ Missed(body.kpis.contentType)
                \/ \E i \in 1..Len(recentRecords) : recentRecords[i].anomalyDetected
        IN  body.assessment = IF attention THEN "Warning" ELSE "OnTarget"

\* kpiEmoji has returned from a call with this direction
Returned(direction) == pc = "returned" /\ kpiInput.direction = direction

\* C7: for a higher-is-better KPI a value gets on-target iff value >= target,
\* critical iff value < 95, warning iff 95 <= value < target; null gets '—'.
C7_HigherIsBetterBands ==
    Returned("higher") =>
        LET v == kpiInput.value
            target == kpiInput.target
        IN  /\ v = Null => kpiOutput = "dash"
            /\ IsNumber(v) =>
                   /\ kpiOutput = "onTarget" <=> v >= target
                   /\ kpiOutput = "critical" <=> v < 9500
                   /\ kpiOutput = "warning" <=> (9500 <= v /\ v < target)

\* an uptime of 95.24 against the target 99.5 is a warning
C7_Witness ==
    /\ Returned("higher")
    /\ kpiInput.value = 9524
    /\ kpiInput.target = 9950
    /\ kpiOutput = "warning"

OkInWindow == {i \in 1..Len(recentRecords) : recentRecords[i].ok}
ValidInWindow == {i \in OkInWindow : recentRecords[i].contentTypeValid}

\* C9 as stated: content-type validity% is exactly valid ok records / ok
\* records x 100 over the whole window, null without ok records.
C9_ContentTypeValidityExact ==
    StatsComputed =>
        LET c == contentTypeValidityPctOf(recentRecords, tie)
        IN  IF OkInWindow = {} THEN c = Null
            ELSE c * Cardinality(OkInWindow) = 10000 * Cardinality(ValidInWindow)

\* C9 amended: content-type validity% is valid ok records / ok records x 100
\* over the whole window rounded to 1 decimal, a number in [0,100]; it is null
\* without ok records; the KPI row shows that value.
C9_ContentTypeValidityRounded ==
    StatsComputed =>
        LET c == contentTypeValidityPctOf(recentRecords, tie)
        IN  /\ IF OkInWindow = {} THEN c = Null
               ELSE /\ c \in 0..10000
                    /\ c % 10 = 0
                    /\ IsRounded(c \div 10, 1000 * Cardinality(ValidInWindow),
                                 Cardinality(OkInWindow))
            /\ BodyBuilt =>
                   body.kpis.contentType.thisWeek =
                       IF c = Null THEN Dash ELSE c \div 10

\* a report over ok records of two endpoints and a failed check of the third:
\* 1 of 2 ok records valid
C9_Witness ==
    /\ BodyBuilt
    /\ Cardinality(OkInWindow) = 2
    /\ Cardinality(ValidInWindow) = 1
    /\ Len(recentRecords) = 3
    /\ body.kpis.contentType.thisWeek = 500

\* C10: a run at another instant over the same log and the same window builds
\* the same body.
C10_BodyIndependentOfInstant ==
    BodyBuilt =>
        \A at \in Instants :
            (/\ filterRecentRecords(readLog(logFile), REPORT_WINDOW_DAYS, at)
                    = recentRecords
             /\ reportStartOf(at) = reportStartOf(now)
             /\ reportEndOf(at) = reportEndOf(now))
            => aggregate(recentRecords, at, tie)[2] = body

\* main has called readLog and filterRecentRecords
LogRead == now # None

\* the timestamp of r lies in [t - 7 days, t]
InWindow(r, t) ==
    LET ts == timestampOf(r)
    IN  IsNumber(ts) /\ t - REPORT_WINDOW_DAYS * DAY_TICKS <= ts /\ ts <= t

\* C11: the window returned by filterRecentRecords(log, 7) holds exactly the
\* records of the log stamped in [now - 7 days, now], in the order of the log.
C11_WindowIsLastSevenDays ==
    (LogRead /\ ~filterRecentRecordsThrows(log)) =>
        recentRecords = SelectSeq(log, LAMBDA r : InWindow(r, now))

\* the part of C11 the code keeps: the lower end of the window
WindowHasNothingOlderThanCutoff ==
    (LogRead /\ ~filterRecentRecordsThrows(log)) =>
        recentRecords =
            SelectSeq(log, LAMBDA r :
                IsNumber(timestampOf(r))
                /\ now - REPORT_WINDOW_DAYS * DAY_TICKS <= timestampOf(r))

\* C12: with GITHUB_TOKEN or GITHUB_REPOSITORY unset, the run writes one
\* diagnostic and exits with status 1 before the log is read and without any
\* issue-creation request, whatever the log file holds.
C12_MissingConfigExitsAtStartup ==
    ((~env.token \/ ~env.repo) /\ pc # "start") =>
        /\ pc = "exited"
        /\ exitCode = 1
        /\ console = << <<"ERROR", IF ~env.token THEN "GITHUB_TOKEN not set"
                                   ELSE "GITHUB_REPOSITORY not set">> >>
        /\ ~LogRead
        /\ log = <<>>
        /\ recentRecords = <<>>
        /\ requests = 0

\* the token is set, the repository is not, and the log file holds records
C12_Witness ==
    /\ env.token
    /\ ~env.repo
    /\ pc = "exited"
    /\ exitCode = 1
    /\ logFile.kind = "array"
    /\ Len(logFile.records) > 0

\* no element of the log file is a record stamped in [now - 7 days, now]
NoRecordInWindow ==
    \A i \in 1..Len(readLog(logFile)) : ~InWindow(readLog(logFile)[i], now)

\* C13: with the configuration present, a run that finds no record of the log
\* inside the 7-day window (the log may be absent, unreadable or not an array)
\* creates no issue and exits with status 0.
C13_NoDataExitsCleanly ==
    (env = Configured /\ LogRead /\ NoRecordInWindow) =>
        /\ pc = "exited"
        /\ exitCode = 0
        /\ requests = 0
        /\ body = NoBody

\* C13 for logs without a null element and without a record stamped later than
\* the run
NoDataExitsCleanlyWithoutNullOrFuture ==
    (/\ env = Configured
     /\ LogRead
     /\ NoRecordInWindow
     /\ ~filterRecentRecordsThrows(log)
     /\ \A i \in 1..Len(log) : ~Gte(timestampOf(log[i]), now + 1)) =>
        /\ pc = "exited"
        /\ exitCode = 0
        /\ requests = 0
        /\ body = NoBody

\* the warnings of readLog
ReadLogWarnings == {"WARN not found", "WARN could not parse", "WARN not an array"}

\* C14: readLog never raises: a file that is absent, unreadable, not JSON or
\* not a JSON array yields the empty sequence and a warning, and the run goes
\* on to its no-data exit; a JSON array is returned element by element.
C14_ReadLogNeverRaises ==
    LogRead =>
        IF logFile.kind = "array"
        THEN log = logFile.records
        ELSE /\ log = <<>>
             /\ Len(console) = 3
             /\ console[2][1] = "WARN"
             /\ console[2][2] \in ReadLogWarnings
             /\ pc = "exited"
             /\ exitCode = 0

\* a run on a file that holds JSON other than an array
C14_Witness ==
    /\ LogRead
    /\ logFile.kind = "notArray"
    /\ console[2] = <<"WARN", "WARN not an array">>
    /\ exitCode = 0

\* r is a null or non-object element, or a record whose timestamp is missing
\* or cannot be parsed
Malformed(r) == r \in {JsonNull, JsonNumber} \/ ~IsNumber(timestampOf(r))

WellFormed(records) == SelectSeq(records, LAMBDA r : ~Malformed(r))

\* C15: a malformed element of the log array is skipped: the run is not
\* aborted, and its window is the window of the log without that element.
C15_MalformedRecordsSkipped ==
    LogRead =>
        /\ ~(pc = "exited" /\ exitCode = 1 /\ Len(recentRecords) = 0)
        /\ recentRecords
             = filterRecentRecords(WellFormed(log), REPORT_WINDOW_DAYS, now)

\* C15 for logs without a null element
MalformedObjectsSkipped ==
    (LogRead /\ ~filterRecentRecordsThrows(log)) =>
        recentRecords = filterRecentRecords(WellFormed(log), REPORT_WINDOW_DAYS, now)

\* s is t with some elements left out
RECURSIVE IsSubSeq(_, _)
IsSubSeq(s, t) ==
    IF s = <<>> THEN TRUE
    ELSE IF t = <<>> THEN FALSE
    ELSE IF Head(s) = Head(t) THEN IsSubSeq(Tail(s), Tail(t))
    ELSE IsSubSeq(s, Tail(t))

\* C16: no step of a run changes the log file, and the window is a selection
\* of the records read from it, each record as it is in the file.
C16_LogNeverMutated ==
    /\ [][logFile' = logFile]_vars
    /\ [](LogRead => (log = readLog(logFile) /\ IsSubSeq(recentRecords, log)))

\* a run that published a report over a part of its log
C16_Witness ==
    /\ pc = "done"
    /\ Len(recentRecords) > 0
    /\ Len(recentRecords) < Len(logFile.records)

Logged(level, msg) == \E i \in 1..Len(console) : console[i] = <<level, msg>>

\* C17: when the issue-creation request gets a non-success status or fails,
\* the run exits with status 1 and does not log a creation; 'Issue created
\* successfully' is logged only after a success response to the one request
\* of the run.
C17_PublishFailureExitsWithError ==
    /\ (response \in {"notOk", "failed", "okBodyUnreadable"} /\ pc # "awaitFetch") =>
           /\ pc = "exited"
           /\ exitCode = 1
           /\ ~Logged("INFO", "Issue created successfully")
    /\ Logged("INFO", "Issue created successfully") =>
           /\ response = "ok"
           /\ requests = 1

\* the request was answered with a non-success status and the run has ended
C17_Witness ==
    /\ response = "notOk"
    /\ pc = "exited"
    /\ Logged("ERROR", "Failed to create issue")

Terminated == pc \in {"exited", "done"}

ErrorExit == pc = "exited" /\ exitCode = 1
NoDataExit == pc = "exited" /\ exitCode = 0 /\ requests = 0 /\ Len(recentRecords) = 0
Published == pc = "done" /\ requests = 1 /\ response = "ok"

\* C18: every run, whose request eventually settles, terminates, in exactly
\* one of: exit status 1, exit status 0 without a request, completion after
\* one successful request; no run sends a second request, and a terminated
\* run takes no further step.
C18_RunTerminates ==
    /\ <>Terminated
    /\ [](requests <= 1)
    /\ [](Terminated =>
            /\ ErrorExit \/ NoDataExit \/ Published
            /\ ~(ErrorExit /\ NoDataExit)
            /\ ~(ErrorExit /\ Published)
            /\ ~(NoDataExit /\ Published))
    /\ [][~Terminated]_vars

\* a run that completed after its request succeeded
C18_Witness == Published /\ Logged("INFO", "Issue created successfully")

\* C19: an endpoint whose every record in the window has responseTimeMs null
\* has avgResponseMs, minResponseMs and maxResponseMs null, and a numeric
\* uptimePercent.
C19_NoLatencyYieldsNull ==
    StatsComputed =>
        \A e \in Endpoints :
            (/\ RecordsOf(e) # {}
             /\ \A i \in RecordsOf(e) : recentRecords[i].responseTimeMs = Null) =>
                /\ stats[e] # NullStats
                /\ stats[e].avgResponseMs = Null
                /\ stats[e].minResponseMs = Null
                /\ stats[e].maxResponseMs = Null
                /\ stats[e].uptimePercent \in 0..10000

\* two timed-out checks of one endpoint beside a healthy other endpoint
C19_Witness ==
    /\ StatsComputed
    /\ Cardinality(RecordsOf("Data Query")) = 2
    /\ \A i \in RecordsOf("Data Query") : recentRecords[i].responseTimeMs = Null
    /\ stats["Data Query"].avgResponseMs = Null
    /\ stats["Structures"] # NullStats
    /\ stats["Structures"].avgResponseMs = 3000

\* C20: the Avg Response Time row is on target iff the overall average latency
\* is below 3000 ms, and critical iff it is above 4500 ms.
C20_LatencyKpiStrictlyBelowTarget ==
    (BodyBuilt /\ IsNumber(overallAvgMsOf(stats))) =>
        /\ body.kpis.responseTime.status = "onTarget"
               <=> overallAvgMsOf(stats) < RESPONSE_KPI_TARGET_MS
        /\ body.kpis.responseTime.status = "critical"
               <=> 2 * overallAvgMsOf(stats) > 3 * RESPONSE_KPI_TARGET_MS

\* the part of C20 the code keeps: critical iff above 4500 ms
LatencyKpiCriticalAbove4500 ==
    (BodyBuilt /\ IsNumber(overallAvgMsOf(stats))) =>
        (body.kpis.responseTime.status = "critical"
            <=> 2 * overallAvgMsOf(stats) > 3 * RESPONSE_KPI_TARGET_MS)

\* record.extraMetric?.value ?? null
ExtraMetricOf(r) == IF r.extraMetric = Undefined THEN Null ELSE r.extraMetric

\* the window records of endpoint e with the greatest timestamp
MostRecentOf(e) ==
    {i \in RecordsOf(e) :
        \A j \in RecordsOf(e) : recentRecords[j].timestamp <= recentRecords[i].timestamp}

\* C21: latestExtraMetric of an endpoint is the extra metric of its window
\* record with the greatest timestamp (null when that record has none),
\* whatever the order of the records in the log.
C21_LatestExtraMetricOfMostRecent ==
    StatsComputed =>
        \A e \in Endpoints :
            stats[e] # NullStats =>
                \E i \in MostRecentOf(e) :
                    stats[e].latestExtraMetric = ExtraMetricOf(recentRecords[i])

\* the window holds the records of each endpoint in the order of their
\* timestamps
WindowInTimestampOrder ==
    \A e \in Endpoints : \A i, j \in RecordsOf(e) :
        i < j => recentRecords[i].timestamp <= recentRecords[j].timestamp

\* C21 for logs appended to in the order of time
LatestExtraMetricOfMostRecentWhenOrdered ==
    (StatsComputed /\ WindowInTimestampOrder) =>
        \A e \in Endpoints :
            stats[e] # NullStats =>
                \E i \in MostRecentOf(e) :
                    stats[e].latestExtraMetric = ExtraMetricOf(recentRecords[i])

\* C22: the Content-Type Validity row is on target only when every ok record
\* of the window has a valid content type, whatever the size of the window.
C22_ContentTypeOnTargetOnlyIfAllValid ==
    BodyBuilt =>
        (body.kpis.contentType.status = "onTarget" => ValidInWindow = OkInWindow)

\* C22 for windows of at most 1000 ok records, where one invalid record is at
\* least 0.1% of them
ContentTypeOnTargetOnlyIfAllValidUpTo1000 ==
    (BodyBuilt /\ Cardinality(OkInWindow) <= 1000) =>
        (body.kpis.contentType.status = "onTarget" => ValidInWindow = OkInWindow)

AllEndpointsHaveData == \A e \in Endpoints : stats[e] # NullStats

\* C23: in a report where every configured endpoint has data, a critical API
\* Availability row comes with the Critical assessment.
C23_CriticalAvailabilityRowMeansCritical ==
    (BodyBuilt /\ AllEndpointsHaveData) =>
        (body.kpis.availability.status = "critical" => body.assessment = "Critical")

\* a report over three endpoints with data, one of them below the floor and
\* one above it, whose overall uptime is below the floor
C23_Witness ==
    /\ BodyBuilt
    /\ AllEndpointsHaveData
    /\ body.kpis.availability.status = "critical"
    /\ body.assessment = "Critical"
    /\ stats["Structures"].uptimePercent = 10000
    /\ stats["Data Query"].uptimePercent = 0

\* the request has been sent
RequestSent == requests > 0

\* C24: a run sends at most one issue-creation request, and sends it only
\* after, in this order, both configuration variables were found set, the log
\* was read, the window was found non-empty, the stats of every configured
\* endpoint were computed and the body was built; a request that failed is not
\* sent again.
C24_OneRequestAfterAllSteps ==
    /\ [](requests <= 1)
    /\ [][requests' # requests =>
            /\ requests' = requests + 1
            /\ pc = "createIssue"
            /\ env = Configured
            /\ LogRead
            /\ log = readLog(logFile)
            /\ Len(recentRecords) > 0
            /\ recentRecords = filterRecentRecords(log, REPORT_WINDOW_DAYS, now)
            /\ DOMAIN stats = Endpoints
            /\ stats = statsOf(recentRecords, tie)
            /\ BodyBuilt
            /\ body = buildIssueBody(stats, recentRecords, reportStartOf(now),
                                     reportEndOf(now), now, tie)]_vars
    /\ [](BodyBuilt => StatsComputed)
    /\ [](StatsComputed => (LogRead /\ Len(recentRecords) > 0))
    /\ [](LogRead => env = Configured)
    /\ [][response # "none" => requests' = requests]_vars

\* a run whose one request failed and which has ended
C24_Witness ==
    /\ requests = 1
    /\ response = "failed"
    /\ pc = "exited"
    /\ exitCode = 1

====
